---- MODULE Spec2Model ----
(***************************************************************************)
(* Model of mini-executor (src/src/lib.rs): one future in a Mutex<Option>  *)
(* slot inside an Arc, driven by MiniExecutor::run, and the RawWaker       *)
(* vtable (clone_waker, wake_waker, wake_by_ref_waker, drop_waker) whose   *)
(* data pointer is a strong reference to the same Arc.                     *)
(*                                                                         *)
(* A thread is a call stack of run frames.  A frame is one activation of   *)
(* MiniExecutor::run, entered directly ("run") or through wake_waker       *)
(* ("wake").  While a frame is inside fut.poll the code of the future runs *)
(* on that thread and may use the waker protocol itself.                   *)
(***************************************************************************)
EXTENDS Integers, Sequences, FiniteSets

\* ------------------------------------------------------------- bounds
MaxPending == 2      \* a future reports Pending at most this often before Ready
MaxPolls == 4        \* polls explored in one behaviour (cuts the busy loop)
MaxRc == 3           \* strong count up to which callers clone roots and wakers
MaxHandleOps == 2    \* clones, and drops, the future performs inside one direct run
MaxOps == 4          \* length of a handle-protocol sequence in SpecHandle

Threads == {"t1", "t2"}
NoOwner == "none"

VARIABLES
    rc,         \* Arc strong count of the MiniExecutor (0: destroyed)
    roots,      \* Arc<MiniExecutor> values held by callers
    handles,    \* live Waker clones held outside run frames
    future,     \* the Option in the mutex: "Some" or "None"
    left,       \* Pending results the future still reports before Ready
    never,      \* the future never reports Ready
    completed,  \* a poll has reported Ready
    lock,       \* thread holding the MutexGuard, or NoOwner
    poisoned,   \* the mutex is poisoned
    stack,      \* per thread: its run frames, innermost last
    tstate,     \* per thread: "ok", or why it panicked
    polls,      \* history: polls begun
    stale,      \* history: a poll has begun after a poll reported Ready
    nRuns,      \* history: direct calls of run (counted up to 2)
    N,          \* history: Pending results the future reports in all
    wbr,        \* history: the step just taken was a call of wake_by_ref
    log         \* SpecHandle only: handle operations applied, with the count before each

vars == <<rc, roots, handles, future, left, never, completed, lock, poisoned,
          stack, tstate, polls, stale, nRuns, N, wbr, log>>

futVars == <<future, left, never, completed, N>>
histVars == <<polls, stale, nRuns>>

\* ------------------------------------------------------- Arc arithmetic
\* Arc::clone: one more strong reference.
ArcClone(c) == c + 1

\* Dropping an Arc: one strong reference fewer.
ArcDrop(c) == c - 1

\* into_waker(executor): executor.clone() goes into the raw pointer
\* (Arc::into_raw), the by-value parameter is dropped on return.
into_waker_forget(c) == ArcClone(c)
into_waker(c) == ArcDrop(ArcClone(c))

\* clone_waker: from_raw (no count change), clone into the new raw pointer,
\* forget the reconstructed Arc.
clone_waker_noforget(c) == ArcDrop(ArcClone(c))
clone_waker(c) == ArcClone(c)

\* drop_waker: from_raw, drop.
drop_waker_forget(c) == c
drop_waker(c) == ArcDrop(c)

\* wake_by_ref_waker: empty body.
wake_by_ref_waker_drop(c) == ArcDrop(c)
wake_by_ref_waker(c) == c

\* run, line 60: self.clone() is handed to into_waker.
RunEnter(c) == into_waker(ArcClone(c))

\* run, line 75: the locals go out of scope (waker: drop_waker), then self.
RunLeave_keepself(c) == drop_waker(c)
RunLeave(c) == ArcDrop(drop_waker(c))

\* ------------------------------------------------------------ frames
\* One activation of run.  via: entered directly or through wake_waker;
\* pc: where it is; last: result of its latest poll; afterDone: the future
\* had completed when it was called.  History of the count: net is what
\* run's own code added to rc so far, hnet what the future's poll code
\* added through cl clones and dr drops of wakers (direct runs only).
Frame(via) ==
    [via |-> via, pc |-> "start", net |-> 0, hnet |-> 0, cl |-> 0, dr |-> 0,
     last |-> "none", afterDone |-> completed]

Top(t) == stack[t][Len(stack[t])]

SetTop(t, f) == [stack EXCEPT ![t] = [@ EXCEPT ![Len(@)] = f]]

Push(t, f) == [stack EXCEPT ![t] = Append(@, f)]

Pop(t) == [stack EXCEPT ![t] = SubSeq(@, 1, Len(@) - 1)]

InFrame(t) == stack[t] /= <<>>

InPoll(t) == InFrame(t) /\ Top(t).pc = "polling"

\* The poll body of a direct run: the frame records what the future does
\* with wakers there (cl, dr, hnet).
Tracked(t) == InPoll(t) /\ Top(t).via = "run"

\* Caller code or the future's poll body is what is executing on thread t.
CanAct(t) == tstate[t] = "ok" /\ rc > 0 /\ (~InFrame(t) \/ InPoll(t))

\* Strong references a frame owns: self, and the waker once it is built.
FrameRefs(f) ==
    CASE f.pc = "start" -> 1
      [] f.pc = "returned" -> 0
      [] OTHER -> 2

RECURSIVE SumRefs(_)
SumRefs(s) == IF s = <<>> THEN 0 ELSE FrameRefs(Head(s)) + SumRefs(Tail(s))

\* The loop's reaction to Poll::Pending (continue) and Poll::Ready (break).
OnPending_break == "exit"
OnPending == "lock"

OnReady_continue == "lock"
OnReady == "exit"

\* Mutex::lock returns the guard only when no guard is outstanding.
LockAvailable_always == TRUE
LockAvailable == lock = NoOwner

\* lock().unwrap() yields the guard only when the mutex is not poisoned.
LockSound_ignore == TRUE
LockSound == ~poisoned

\* ------------------------------------------------------------- Init
\* MiniExecutor::new: Arc::new(Self { future: Mutex::new(Some(Box::pin(future))) })
Init ==
    /\ rc = 1
    /\ roots = 1
    /\ handles = 0
    /\ future = "Some"
    /\ never \in BOOLEAN
    /\ N \in 0..MaxPending
    /\ never => N = 0
    /\ left = N
    /\ completed = FALSE
    /\ lock = NoOwner
    /\ poisoned = FALSE
    /\ stack = [t \in Threads |-> <<>>]
    /\ tstate = [t \in Threads |-> "ok"]
    /\ polls = 0
    /\ stale = FALSE
    /\ nRuns = 0
    /\ wbr = FALSE
    /\ log = <<>>

\* ---------------------------------------------------- caller operations
\* A caller clones the Arc<MiniExecutor> that new returned.
CloneRoot ==
    /\ roots > 0
    /\ rc < MaxRc
    /\ rc' = ArcClone(rc)
    /\ roots' = roots + 1
    /\ UNCHANGED <<handles, futVars, lock, poisoned, stack, tstate, histVars, log>>
    /\ wbr' = FALSE

\* A caller drops an Arc<MiniExecutor>.
DropRoot ==
    /\ roots > 0
    /\ rc' = ArcDrop(rc)
    /\ roots' = roots - 1
    /\ UNCHANGED <<handles, futVars, lock, poisoned, stack, tstate, histVars, log>>
    /\ wbr' = FALSE

\* executor.run(): self is moved into the call.
Run(t) ==
    /\ CanAct(t)
    /\ roots > 0
    /\ roots' = roots - 1
    /\ stack' = Push(t, Frame("run"))
    /\ nRuns' = IF nRuns < 2 THEN nRuns + 1 ELSE nRuns
    /\ UNCHANGED <<rc, handles, futVars, lock, poisoned, tstate, polls, stale, log>>
    /\ wbr' = FALSE

\* Waker::wake -> wake_waker: the handle's reference becomes `executor`
\* (Arc::from_raw) and is moved into executor.run().
Wake(t) ==
    /\ CanAct(t)
    /\ handles > 0
    /\ handles' = handles - 1
    /\ stack' = Push(t, Frame("wake"))
    /\ UNCHANGED <<rc, roots, futVars, lock, poisoned, tstate, histVars, log>>
    /\ wbr' = FALSE

\* Waker::clone -> clone_waker, on an owned clone or, inside poll, on cx.waker().
CloneWaker(t) ==
    /\ CanAct(t)
    /\ handles > 0 \/ InPoll(t)
    /\ rc < MaxRc
    /\ Tracked(t) => Top(t).cl < MaxHandleOps
    /\ rc' = clone_waker(rc)
    /\ handles' = handles + 1
    /\ stack' = IF Tracked(t)
                THEN SetTop(t, [Top(t) EXCEPT !.cl = @ + 1, !.hnet = @ + (rc' - rc)])
                ELSE stack
    /\ UNCHANGED <<roots, futVars, lock, poisoned, tstate, histVars, log>>
    /\ wbr' = FALSE

\* Dropping a Waker clone -> drop_waker.
DropWaker(t) ==
    /\ CanAct(t)
    /\ handles > 0
    /\ Tracked(t) => Top(t).dr < MaxHandleOps
    /\ rc' = drop_waker(rc)
    /\ handles' = handles - 1
    /\ stack' = IF Tracked(t)
                THEN SetTop(t, [Top(t) EXCEPT !.dr = @ + 1, !.hnet = @ + (rc' - rc)])
                ELSE stack
    /\ UNCHANGED <<roots, futVars, lock, poisoned, tstate, histVars, log>>
    /\ wbr' = FALSE

\* Waker::wake_by_ref -> wake_by_ref_waker.
WakeByRef(t) ==
    /\ CanAct(t)
    /\ handles > 0 \/ InPoll(t)
    /\ rc' = wake_by_ref_waker(rc)
    /\ UNCHANGED <<roots, handles, futVars, lock, poisoned, stack, tstate, histVars, log>>
    /\ wbr' = TRUE

\* ------------------------------------------------------------- run
\* A panic unwinds every frame of the thread: each frame's waker and self
\* are dropped, and a guard dropped while panicking poisons the mutex.
\* Waker clones counted in `handles` are stored outside the frames and stay.
Unwind(t, why) ==
    /\ rc' = rc - SumRefs(stack[t])
    /\ lock' = IF lock = t THEN NoOwner ELSE lock
    /\ poisoned' = (poisoned \/ lock = t)
    /\ stack' = [stack EXCEPT ![t] = <<>>]
    /\ tstate' = [tstate EXCEPT ![t] = why]

\* line 60-61: build the waker and the context.
RunStart(t) ==
    /\ InFrame(t) /\ tstate[t] = "ok"
    /\ Top(t).pc = "start"
    /\ rc' = RunEnter(rc)
    /\ stack' = SetTop(t, [Top(t) EXCEPT !.pc = "lock", !.net = @ + (rc' - rc)])
    /\ UNCHANGED <<roots, handles, futVars, lock, poisoned, tstate, histVars, log>>
    /\ wbr' = FALSE

\* line 65: self.future.lock().unwrap(), the mutex free and sound.
RunLock(t) ==
    /\ InFrame(t) /\ tstate[t] = "ok"
    /\ Top(t).pc = "lock"
    /\ LockAvailable
    /\ LockSound
    /\ lock' = t
    /\ stack' = SetTop(t, [Top(t) EXCEPT !.pc = "locked"])
    /\ UNCHANGED <<rc, roots, handles, futVars, poisoned, tstate, histVars, log>>
    /\ wbr' = FALSE

\* line 65: lock() of a poisoned mutex is Err, unwrap panics.
RunLockPoisoned(t) ==
    /\ InFrame(t) /\ tstate[t] = "ok"
    /\ Top(t).pc = "lock"
    /\ lock = NoOwner
    /\ poisoned
    /\ Unwind(t, "poison")
    /\ UNCHANGED <<roots, handles, futVars, histVars, log>>
    /\ wbr' = FALSE

\* line 65 on the thread that already holds the guard (run re-entered from
\* inside poll): std leaves the outcome open, the call does not return; it
\* blocks for ever ...
RelockDeadlock(t) ==
    /\ InFrame(t) /\ tstate[t] = "ok"
    /\ Top(t).pc = "lock"
    /\ lock = t
    /\ stack' = SetTop(t, [Top(t) EXCEPT !.pc = "deadlock"])
    /\ UNCHANGED <<rc, roots, handles, futVars, lock, poisoned, tstate, histVars, log>>
    /\ wbr' = FALSE

\* ... or it panics.
RelockPanic(t) ==
    /\ InFrame(t) /\ tstate[t] = "ok"
    /\ Top(t).pc = "lock"
    /\ lock = t
    /\ Unwind(t, "relock")
    /\ UNCHANGED <<roots, handles, futVars, histVars, log>>
    /\ wbr' = FALSE

\* line 66-73: if let Some(fut) = future.as_mut() { poll } else { break }
RunCheck(t) ==
    /\ InFrame(t) /\ tstate[t] = "ok"
    /\ Top(t).pc = "locked"
    /\ IF future = "Some"
       THEN /\ polls < MaxPolls
            /\ polls' = polls + 1
            /\ stale' = (stale \/ completed)
            /\ stack' = SetTop(t, [Top(t) EXCEPT !.pc = "polling"])
            /\ lock' = lock
       ELSE /\ lock' = NoOwner
            /\ stack' = SetTop(t, [Top(t) EXCEPT !.pc = "exit", !.last = "Empty"])
            /\ UNCHANGED <<polls, stale>>
    /\ UNCHANGED <<rc, roots, handles, futVars, poisoned, tstate, nRuns, log>>
    /\ wbr' = FALSE

\* line 69: the poll reports Pending; the guard is dropped, the loop continues.
PollPending(t) ==
    /\ InPoll(t) /\ tstate[t] = "ok"
    /\ ~completed
    /\ never \/ left > 0
    /\ left' = IF never THEN left ELSE left - 1
    /\ lock' = NoOwner
    /\ stack' = SetTop(t, [Top(t) EXCEPT !.pc = OnPending, !.last = "Pending"])
    /\ UNCHANGED <<rc, roots, handles, future, never, completed, N, poisoned,
                   tstate, histVars, log>>
    /\ wbr' = FALSE

\* line 68: the poll reports Ready; break drops the guard. The slot keeps
\* the future (as_mut borrows it, nothing takes it out).
PollReady(t) ==
    /\ InPoll(t) /\ tstate[t] = "ok"
    /\ ~completed
    /\ ~never /\ left = 0
    /\ completed' = TRUE
    /\ lock' = NoOwner
    /\ stack' = SetTop(t, [Top(t) EXCEPT !.pc = OnReady, !.last = "Ready"])
    /\ UNCHANGED <<rc, roots, handles, future, left, never, N, poisoned,
                   tstate, histVars, log>>
    /\ wbr' = FALSE

\* line 67 on a future that has already completed: the Future contract
\* leaves the result open; it reports Ready or Pending ...
PollStale(t, out) ==
    /\ InPoll(t) /\ tstate[t] = "ok"
    /\ completed
    /\ lock' = NoOwner
    /\ stack' = SetTop(t, [Top(t) EXCEPT
                   !.pc = IF out = "Ready" THEN OnReady ELSE OnPending,
                   !.last = out])
    /\ UNCHANGED <<rc, roots, handles, futVars, poisoned, tstate, histVars, log>>
    /\ wbr' = FALSE

\* ... or it panics (an async block does), with the guard held.
PollPanic(t) ==
    /\ InPoll(t) /\ tstate[t] = "ok"
    /\ completed
    /\ Unwind(t, "poll")
    /\ UNCHANGED <<roots, handles, futVars, histVars, log>>
    /\ wbr' = FALSE

\* line 75: context, waker and self go out of scope.
RunExit(t) ==
    /\ InFrame(t) /\ tstate[t] = "ok"
    /\ Top(t).pc = "exit"
    /\ rc' = RunLeave(rc)
    /\ stack' = SetTop(t, [Top(t) EXCEPT !.pc = "returned", !.net = @ + (rc' - rc)])
    /\ UNCHANGED <<roots, handles, futVars, lock, poisoned, tstate, histVars, log>>
    /\ wbr' = FALSE

\* Control is back in the caller of run (or of wake).
Return(t) ==
    /\ InFrame(t) /\ tstate[t] = "ok"
    /\ Top(t).pc = "returned"
    /\ stack' = Pop(t)
    /\ UNCHANGED <<rc, roots, handles, futVars, lock, poisoned, tstate, histVars, log>>
    /\ wbr' = FALSE

Next ==
    \/ CloneRoot
    \/ DropRoot
    \/ \E t \in Threads : Run(t)
    \/ \E t \in Threads : Wake(t)
    \/ \E t \in Threads : CloneWaker(t)
    \/ \E t \in Threads : DropWaker(t)
    \/ \E t \in Threads : WakeByRef(t)
    \/ \E t \in Threads : RunStart(t)
    \/ \E t \in Threads : RunLock(t)
    \/ \E t \in Threads : RunLockPoisoned(t)
    \/ \E t \in Threads : RelockDeadlock(t)
    \/ \E t \in Threads : RelockPanic(t)
    \/ \E t \in Threads : RunCheck(t)
    \/ \E t \in Threads : PollPending(t)
    \/ \E t \in Threads : PollReady(t)
    \/ \E t \in Threads, out \in {"Ready", "Pending"} : PollStale(t, out)
    \/ \E t \in Threads : PollPanic(t)
    \/ \E t \in Threads : RunExit(t)
    \/ \E t \in Threads : Return(t)

Spec == Init /\ [][Next]_vars

\* ------------------------------------------------------- helper views
\* Every live frame, as <<thread, depth>>.
AllFrames == UNION {{<<t, i>> : i \in 1..Len(stack[t])} : t \in Threads}

FrameAt(x) == stack[x[1]][x[2]]

RECURSIVE SumOver(_)
SumOver(T) ==
    IF T = {} THEN 0
    ELSE LET t == CHOOSE u \in T : TRUE IN SumRefs(stack[t]) + SumOver(T \ {t})

\* Strong references held by executing run frames.
HeldByFrames == SumOver(Threads)

\* ------------------------------------------- the waker protocol alone
\* Handle operations applied one after another to an identity with rc
\* strong references, `handles` of them owned by Waker values; log keeps
\* each operation with the count it found.
InitHandle ==
    /\ rc \in 1..MaxRc
    /\ handles \in 1..rc
    /\ roots = rc - handles
    /\ future = "Some"
    /\ never = FALSE
    /\ N = 0
    /\ left = 0
    /\ completed = FALSE
    /\ lock = NoOwner
    /\ poisoned = FALSE
    /\ stack = [t \in Threads |-> <<>>]
    /\ tstate = [t \in Threads |-> "ok"]
    /\ polls = 0
    /\ stale = FALSE
    /\ nRuns = 0
    /\ wbr = FALSE
    /\ log = <<>>

HandleFrame == <<roots, futVars, lock, poisoned, stack, tstate, histVars>>

HClone ==
    /\ handles > 0
    /\ Len(log) < MaxOps
    /\ rc' = clone_waker(rc)
    /\ handles' = handles + 1
    /\ log' = Append(log, [op |-> "clone", rc |-> rc])
    /\ UNCHANGED HandleFrame
    /\ wbr' = FALSE

HDrop ==
    /\ handles > 0
    /\ Len(log) < MaxOps
    /\ rc' = drop_waker(rc)
    /\ handles' = handles - 1
    /\ log' = Append(log, [op |-> "drop", rc |-> rc])
    /\ UNCHANGED HandleFrame
    /\ wbr' = FALSE

HWakeByRef ==
    /\ handles > 0
    /\ Len(log) < MaxOps
    /\ rc' = wake_by_ref_waker(rc)
    /\ log' = Append(log, [op |-> "wake_by_ref", rc |-> rc])
    /\ UNCHANGED <<handles, HandleFrame>>
    /\ wbr' = TRUE

NextHandle == HClone \/ HDrop \/ HWakeByRef

SpecHandle == InitHandle /\ [][NextHandle]_vars

\* The strong count after the j-th logged operation.
After(j) == IF j < Len(log) THEN log[j + 1].rc ELSE rc

OpsAt(i, ops) ==
    /\ i + Len(ops) - 1 <= Len(log)
    /\ \A k \in 1..Len(ops) : log[i + k - 1].op = ops[k]

\* ------------------------------------------------------------ claims

\* C1: a direct call of run on a future that reports Pending N times and
\* then Ready leaves its loop when N+1 polls have been made, also when wake
\* is invoked meanwhile (the only direct call: nRuns = 1).
C1_RunPollsNPlus1 ==
    [][\A t \in Threads :
          ( /\ Len(stack[t]) = 1
            /\ stack[t][1].via = "run"
            /\ stack[t][1].pc = "polling"
            /\ nRuns = 1
            /\ ~never
            /\ Len(stack'[t]) = 1
            /\ stack'[t][1].pc = "exit" )
          => polls = N + 1]_vars

\* C2: a run called after the future has completed, with no other run or
\* wake in progress, performs no poll.
C2_SecondRunNoPoll ==
    \A x \in AllFrames :
        FrameAt(x).via = "run" /\ FrameAt(x).afterDone /\ AllFrames = {x}
            => FrameAt(x).pc /= "polling"

\* C3: with a wake-driven loop on one thread and run on another thread, no
\* poll of the future follows the poll that reported Ready.
WakeBesideRun ==
    \E x, y \in AllFrames :
        /\ x[1] /= y[1]
        /\ FrameAt(x).via = "wake"
        /\ FrameAt(y).via = "run"

C3_CrossWakeNoDuplicate == (WakeBesideRun /\ nRuns = 1) => ~stale

\* C4: at most one frame is between lock() and the end of its poll, and the
\* thread of that frame holds the guard.
Critical(x) == FrameAt(x).pc \in {"locked", "polling"}

C4_MutualExclusion ==
    /\ Cardinality({x \in AllFrames : Critical(x)}) <= 1
    /\ \A x \in AllFrames : Critical(x) => lock = x[1]

\* C4 witness: a wake-driven loop waits for the guard while another thread polls.
C4_Contended ==
    \E t, u \in Threads :
        /\ t /= u
        /\ InPoll(t)
        /\ InFrame(u) /\ Top(u).via = "wake" /\ Top(u).pc = "lock"

\* C5: a wake invoked from inside poll on the polling thread proceeds: its
\* drive loop is never blocked for ever on the guard its own thread holds.
C5_NestedWakeProceeds ==
    \A t \in Threads :
        InFrame(t) /\ Top(t).via = "wake" /\ Len(stack[t]) > 1 => Top(t).pc /= "deadlock"

\* C6: the strong count is the number of owners (roots, Waker clones, and
\* the references run frames hold); it is positive while any owner exists.
C6_RefCount ==
    /\ rc = roots + handles + HeldByFrames
    /\ roots >= 0 /\ handles >= 0
    /\ (roots > 0 \/ handles > 0 \/ HeldByFrames > 0) => rc > 0

\* C6 witness: a Waker clone and an executing run own references together.
C6_OwnersTogether ==
    /\ handles >= 1
    /\ \E t \in Threads : InPoll(t)
    /\ rc = MaxRc

\* C7 (as stated): clone, then drop of both handles, leaves the count as it
\* was before the clone.
C7_CloneDropBothKeeps ==
    \A i \in 1..Len(log) :
        OpsAt(i, <<"clone", "drop", "drop">>) => After(i + 2) = log[i].rc

\* C7 (amended): clone then drop of the clone restores the count; dropping
\* the original too leaves one less.
C7_CloneDropInverse ==
    \A i \in 1..Len(log) :
        /\ OpsAt(i, <<"clone", "drop">>) => After(i + 1) = log[i].rc
        /\ OpsAt(i, <<"clone", "drop", "drop">>) => After(i + 2) = log[i].rc - 1

\* C7 witness: a clone followed by two drops has been applied.
C7_Applied == \E i \in 1..Len(log) : OpsAt(i, <<"clone", "drop", "drop">>)

\* The scenario of C8: a direct run on a fresh future during which every
\* clone the future made was dropped again.
Registered(f) ==
    /\ f.via = "run"
    /\ f.pc = "returned"
    /\ ~f.afterDone
    /\ N >= 1
    /\ f.cl >= 1
    /\ f.cl = f.dr

\* C8 (as stated): over such a run the count is unchanged.
C8_CountUnchanged ==
    \A x \in AllFrames : Registered(FrameAt(x)) => FrameAt(x).net + FrameAt(x).hnet = 0

\* C8 (amended): such a run has returned after a Ready poll and the call
\* lowered the count by exactly one, the reference passed as self.
C8_CountMinusSelf ==
    \A x \in AllFrames :
        Registered(FrameAt(x)) =>
            /\ FrameAt(x).net + FrameAt(x).hnet = -1
            /\ FrameAt(x).last = "Ready"

\* C8 witness: two Pending polls, each with a clone and a drop, then Ready.
C8_Scenario ==
    \E x \in AllFrames :
        /\ Registered(FrameAt(x))
        /\ FrameAt(x).cl = 2
        /\ N = 2 /\ polls = 3 /\ nRuns = 1 /\ ~stale

\* C9: a wake that has returned changed the count by -1 in all.
C9_WakeNetsMinusOne ==
    \A x \in AllFrames :
        FrameAt(x).via = "wake" /\ FrameAt(x).pc = "returned" => FrameAt(x).net = -1

\* C9 witness: a wake call has returned.
C9_WakeReturned ==
    \E x \in AllFrames : FrameAt(x).via = "wake" /\ FrameAt(x).pc = "returned"

\* C10: a frame leaves the loop only after a Ready poll or an empty slot,
\* so none leaves it when the future never reports Ready.
C10_ExitOnlyAfterReady ==
    \A x \in AllFrames :
        FrameAt(x).pc \in {"exit", "returned"} =>
            /\ FrameAt(x).last \in {"Ready", "Empty"}
            /\ ~never

\* C10 witness: run keeps polling a future that never completes.
C10_Spinning ==
    /\ never
    /\ polls >= 3
    /\ \E t \in Threads :
          InFrame(t) /\ Top(t).via = "run" /\ Top(t).pc = "lock" /\ Top(t).last = "Pending"

\* The pc of the innermost frame of t after the step.
TopPcNext(t) == stack'[t][Len(stack'[t])].pc

\* A step of run's own code on thread t: the innermost frame moves on.
RunCodeStep(t) ==
    /\ InFrame(t)
    /\ Len(stack'[t]) = Len(stack[t])
    /\ tstate'[t] = "ok"
    /\ TopPcNext(t) /= Top(t).pc

SameDepth == \A t \in Threads : Len(stack'[t]) = Len(stack[t])

\* C11: the only run, on a future that is Ready at once and does not touch
\* wakers, polls once and leaves after that poll; no wake is ever invoked.
C11_ReadyAtOnce ==
    \A x \in AllFrames :
        ( /\ FrameAt(x).via = "run"
          /\ ~FrameAt(x).afterDone
          /\ N = 0 /\ ~never
          /\ nRuns = 1
          /\ FrameAt(x).cl = 0 /\ FrameAt(x).dr = 0 /\ handles = 0 )
        => /\ polls <= 1
           /\ \A y \in AllFrames : FrameAt(y).via /= "wake"
           /\ FrameAt(x).pc \in {"exit", "returned"}
                 => polls = 1 /\ FrameAt(x).last = "Ready"

\* C11 witness: such a run has returned.
C11_Returned ==
    \E x \in AllFrames :
        /\ FrameAt(x).via = "run" /\ FrameAt(x).pc = "returned"
        /\ N = 0 /\ ~never /\ nRuns = 1 /\ polls = 1
        /\ FrameAt(x).cl = 0 /\ handles = 0

\* C12: a call of wake_by_ref changes nothing: not the count, the handles,
\* the slot, the future, the lock, the polls made, nor any run frame.
C12_WakeByRefNoOp ==
    [][wbr' => /\ rc' = rc
               /\ handles' = handles
               /\ roots' = roots
               /\ futVars' = futVars
               /\ lock' = lock
               /\ poisoned' = poisoned
               /\ polls' = polls
               /\ stack' = stack]_vars

\* C12 witness: wake_by_ref was called inside a poll, with a clone alive.
C12_CalledInPoll == wbr /\ handles >= 1 /\ \E t \in Threads : InPoll(t)

\* C13: once a poll has reported Ready the slot is empty.
C13_ReadyEmptiesSlot == completed => future = "None"

\* C14: after a poll has reported Ready no further poll begins.
C14_NoPollAfterReady == [][completed => polls' = polls]_vars

\* C15: of run's own steps only the construction of the waker (+1, no poll)
\* and the return (waker and self dropped) change the count, and none
\* creates or consumes a Waker clone.
C15_RunOwnsOneWaker ==
    [][\A t \in Threads :
          RunCodeStep(t) =>
             /\ handles' = handles
             /\ roots' = roots
             /\ rc' - rc = (CASE Top(t).pc = "start" -> 1
                              [] Top(t).pc = "exit" -> -2
                              [] OTHER -> 0)
             /\ Top(t).pc = "start" => polls' = polls /\ TopPcNext(t) = "lock"
             /\ Top(t).pc = "exit" => TopPcNext(t) = "returned"]_vars

\* C15 witness: the waker is built and nothing has been polled yet.
C15_WakerBuilt ==
    /\ polls = 0
    /\ \E t \in Threads :
          InFrame(t) /\ Top(t).pc = "lock" /\ Top(t).net = 1 /\ Top(t).via = "run"

\* C16: a step that makes a Waker clone makes one, adds one to the count
\* and takes nothing away: no root, no frame, no poll, no guard.
C16_CloneAddsOne ==
    [][handles' > handles =>
          /\ handles' = handles + 1
          /\ rc' = rc + 1
          /\ roots' = roots
          /\ SameDepth
          /\ polls' = polls
          /\ lock' = lock]_vars

\* C16 witness: a clone and the clone made from it are both alive.
C16_TwoClones == handles = 2 /\ rc = 2 /\ roots = 0

\* C17: dropping a Waker clone takes one from the count, polls nothing and
\* leaves the mutex alone; the count reaches zero exactly when no owner is left.
C17_DropTakesOne ==
    [][(handles' < handles /\ SameDepth) =>
          /\ handles' = handles - 1
          /\ rc' = rc - 1
          /\ polls' = polls
          /\ lock' = lock
          /\ poisoned' = poisoned
          /\ futVars' = futVars
          /\ (rc' = 0) = (roots = 0 /\ handles' = 0 /\ HeldByFrames = 0)]_vars

\* C17 witness: the future has dropped its clone inside poll, the guard held.
C17_DroppedInPoll ==
    \E x \in AllFrames :
        /\ FrameAt(x).pc = "polling"
        /\ FrameAt(x).cl = 1 /\ FrameAt(x).dr = 1 /\ FrameAt(x).hnet = 0
        /\ lock = x[1]
        /\ handles = 0

\* C18: a poisoned mutex stays poisoned and free, no poll begins any more,
\* and a frame at lock() can only panic.
C18_PoisonIsFinal ==
    [][poisoned =>
          /\ poisoned'
          /\ polls' = polls
          /\ lock' = NoOwner
          /\ \A t \in Threads :
                (InFrame(t) /\ Top(t).pc = "lock" /\ stack'[t] /= stack[t])
                    => tstate'[t] = "poison"]_vars

\* C18 witness: a poll panicked and a later lock() on another thread failed.
C18_LaterLockFailed ==
    \E t, u \in Threads : tstate[t] = "poll" /\ tstate[u] = "poison"

\* C19: a wake leaves its loop only after a poll of its own reported Ready
\* (or the slot was empty), never after a Pending one, and not at all when
\* the future never reports Ready.
C19_WakeBlocks ==
    \A x \in AllFrames :
        FrameAt(x).via = "wake" =>
            /\ FrameAt(x).pc \in {"exit", "returned"} => FrameAt(x).last \in {"Ready", "Empty"}
            /\ FrameAt(x).last = "Pending" => FrameAt(x).pc \in {"lock", "locked", "polling"}
            /\ never => FrameAt(x).pc \notin {"exit", "returned"}

\* C19 witness: a wake polls again after its own poll reported Pending.
C19_WakeRepolls ==
    \E x \in AllFrames :
        /\ FrameAt(x).via = "wake" /\ FrameAt(x).last = "Pending" /\ FrameAt(x).pc = "polling"
        /\ ~completed

\* C20: a direct run during which the future kept no clone lowers the
\* count by one in all; on the last root, with no clone left, it ends at zero.
C20_RunConsumesSelf ==
    \A x \in AllFrames :
        (FrameAt(x).via = "run" /\ FrameAt(x).pc = "returned" /\ FrameAt(x).cl = FrameAt(x).dr)
        => /\ FrameAt(x).net + FrameAt(x).hnet = -1
           /\ (AllFrames = {x} /\ roots = 0 /\ handles = 0) => rc = 0

\* C20 witness: run on the only root has returned and the identity is gone.
C20_Destroyed ==
    \E x \in AllFrames :
        /\ AllFrames = {x}
        /\ FrameAt(x).via = "run" /\ FrameAt(x).pc = "returned"
        /\ FrameAt(x).cl = 0 /\ FrameAt(x).dr = 0
        /\ nRuns = 1 /\ rc = 0
====
